---- MODULE Spec2Model ----
(***************************************************************************)
(* LD19 lidar visualizer (src/ld19_visualizer.py): the serial frame        *)
(* reader (read_packet), the packet decoder (parse_packet) and the bounded *)
(* point buffer (self.points, a deque with maxlen) of class LD19Lidar.     *)
(*                                                                         *)
(* Angles are kept in hundredths of a degree (the unit of the wire         *)
(* format), so  start_angle / 100.0 + i * 0.83  is  start + 83 * i  and    *)
(* "% 360" is "% 36000".  A point (x, y, intensity) with                   *)
(* x = distance * cos(angle), y = distance * sin(angle) is kept as the     *)
(* record [angle, distance, intensity]: for distance > 0 and angle in      *)
(* [0, 360) the pair (x, y) determines (distance, angle) and conversely.   *)
(***************************************************************************)
EXTENDS Integers, Sequences, FiniteSets, TLC

\* ------------------------------------------------------------ constants

HEADER == 84

PACKET_SIZE == 47

MAXLEN == 5000

\* Number of frames of the long stream (enough to overflow the deque).
NLong == 570

\* parse_packet is called on its own only before this many frames were read.
MaxDirect == 3

\* The frames of the long stream read at the checkpoint (see Init): the
\* buffer is then nearly full.
NResume == 552

\* update calls update_points this many times (range(10), line 103).
UPDATES_PER_DRAW == 10

\* An exception (KeyboardInterrupt, SerialException) is raised only before
\* this many frames were read.
MaxFault == 4

\* A token of the source that is no byte: a pause longer than the read
\* timeout (timeout=1, line 15).
Gap == <<256>>

IsGap(t) == t > 255

\* -------------------------------------------------------- byte helpers

lo(v) == v % 256

hi(v) == (v \div 256) % 256

\* Bitwise exclusive or of two n-bit numbers.
RECURSIVE BitXor(_, _, _)
BitXor(a, b, n) ==
    IF n = 0 THEN 0
    ELSE ((a + b) % 2) + 2 * BitXor(a \div 2, b \div 2, n - 1)

Xor4 == [a \in 0..15 |-> [b \in 0..15 |-> BitXor(a, b, 4)]]

Xor8(a, b) == 16 * Xor4[a \div 16][b \div 16] + Xor4[a % 16][b % 16]

\* One table entry of the sensor's CRC-8 (polynomial 0x4D, MSB first).
RECURSIVE CrcBits(_, _)
CrcBits(c, n) ==
    IF n = 0 THEN c
    ELSE CrcBits(IF c >= 128 THEN Xor8((2 * c) % 256, 77) ELSE (2 * c) % 256,
                 n - 1)

CrcTable == [b \in 0..255 |-> CrcBits(b, 8)]

\* The checksum of a byte sequence is  crc = CrcTable[crc xor byte]  for each
\* byte in turn, from crc = 0.  CrcTable is linear over xor, so the result
\* is the xor, over the bytes, of CrcTable applied to the byte once for
\* itself and once for every byte after it.  CrcPow[n] is CrcTable applied
\* n times.
CrcPow[n \in 0..PACKET_SIZE] ==
    [c \in 0..255 |-> IF n = 0 THEN c ELSE CrcTable[CrcPow[n - 1][c]]]

\* The xor of the contributions of the bytes first..last of data.
RECURSIVE CrcRange(_, _, _)
CrcRange(data, first, last) ==
    IF first > last THEN 0
    ELSE IF first = last THEN CrcPow[Len(data) - first + 1][data[first]]
    ELSE Xor8(CrcRange(data, first, (first + last) \div 2),
              CrcRange(data, (first + last) \div 2 + 1, last))

\* The checksum of a byte sequence (the frame without its last byte).
CalCRC8(data) == CrcRange(data, 1, Len(data))

\* ------------------------------------------------------- the wire format

\* The 36 slot bytes of 12 measurements: dist and inten are 12-tuples.
RECURSIVE SlotBytes(_, _, _)
SlotBytes(dist, inten, i) ==
    IF i > 12 THEN <<>>
    ELSE <<lo(dist[i]), hi(dist[i]), inten[i]>> \o SlotBytes(dist, inten, i + 1)

\* The first 46 bytes of a frame.
FrameBody(speed, start, dist, inten, end, ts) ==
    <<HEADER, 44, lo(speed), hi(speed), lo(start), hi(start)>>
    \o SlotBytes(dist, inten, 1)
    \o <<lo(end), hi(end), lo(ts), hi(ts)>>

WithCrc(body) == Append(body, CalCRC8(body))

\* A well-formed 47-byte frame with a valid checksum.
MakeFrame(speed, start, dist, inten, end, ts) ==
    WithCrc(FrameBody(speed, start, dist, inten, end, ts))

\* ------------------------------------------------------------ the decoder

\* struct.unpack('<H', data[a:a+2])[0], a the 0-based offset.
Unpack16(data, a) == data[a + 1] + 256 * data[a + 2]

start_angle(data) == Unpack16(data, 4)

end_angle(data) == Unpack16(data, 42)

\* A faulty offset: the slots begin one byte late.
offset_From7(i) == 7 + i * 3

\* line 31: the offset of slot i in 0..11.
offset(i) == 6 + i * 3

distance(data, i) == Unpack16(data, offset(i))

intensity(data, i) == data[offset(i) + 2 + 1]

\* A faulty ValidMeasurement: ">=" written for ">".
ValidMeasurement_Ge(data, i) == distance(data, i) >= 0

\* line 35: if distance > 0
ValidMeasurement(data, i) == distance(data, i) > 0

\* A faulty angle: the "% 360" left out.
angle_NoWrap(data, i) == start_angle(data) + i * 83

\* line 36: angle = (start_angle + i * 0.83) % 360, in hundredths of a degree.
angle(data, i) == (start_angle(data) + i * 83) % 36000

\* lines 37-42: the point appended for slot i.
SlotPoint(data, i) ==
    [angle |-> angle(data, i), distance |-> distance(data, i),
     intensity |-> intensity(data, i)]

\* A faulty SlotLoop: points.insert(0, ...) written for points.append(...).
RECURSIVE SlotLoop_Prepend(_, _)
SlotLoop_Prepend(data, i) ==
    IF i >= 12 THEN <<>>
    ELSE SlotLoop_Prepend(data, i + 1)
         \o (IF ValidMeasurement(data, i) THEN <<SlotPoint(data, i)>> ELSE <<>>)

\* lines 29-42: the loop over range(12), from slot i on.
RECURSIVE SlotLoop(_, _)
SlotLoop(data, i) ==
    IF i >= 12 THEN <<>>
    ELSE (IF ValidMeasurement(data, i) THEN <<SlotPoint(data, i)>> ELSE <<>>)
         \o SlotLoop(data, i + 1)

\* What a call returns: None, a list of points, or an exception raised.
None == [kind |-> "None", pts |-> <<>>]

Raise == [kind |-> "raise", pts |-> <<>>]

List(pts) == [kind |-> "list", pts |-> pts]

\* A faulty BadPacket: "<" written for "!=".
BadPacket_Lt(data) == Len(data) < PACKET_SIZE \/ data[1] # HEADER

\* line 20: the guard, with Python's left-to-right "or".
BadPacket(data) == Len(data) # PACKET_SIZE \/ data[1] # HEADER

\* lines 18-48.  The body reads fixed offsets up to data[46]: on a shorter
\* sequence that passed the guard it raises (IndexError, struct.error).
parse_packet(data) ==
    IF BadPacket(data) THEN None
    ELSE IF Len(data) <= 46 THEN Raise
    ELSE List(SlotLoop(data, 0))

\* ------------------------------------------------------- the point buffer

\* A faulty DequeAppend: a list, which never evicts.
DequeAppend_NoEvict(dq, maxlen, x) == Append(dq, x)

\* A faulty DequeAppend: a full buffer drops the new point.
DequeAppend_DropNew(dq, maxlen, x) ==
    IF Len(dq) = maxlen THEN dq ELSE Append(dq, x)

\* A faulty DequeAppend: appendleft written for append.
DequeAppend_Left(dq, maxlen, x) ==
    IF Len(dq) = maxlen THEN <<x>> \o SubSeq(dq, 1, maxlen - 1) ELSE <<x>> \o dq

\* deque.append on a deque with maxlen.
DequeAppend(dq, maxlen, x) ==
    IF Len(dq) = maxlen THEN Append(Tail(dq), x) ELSE Append(dq, x)

\* deque.extend: append the items one by one, from item k on.
RECURSIVE DequeExtend(_, _, _, _)
DequeExtend(dq, maxlen, items, k) ==
    IF k > Len(items) THEN dq
    ELSE DequeExtend(DequeAppend(dq, maxlen, items[k]), maxlen, items, k + 1)

\* line 67: the truth value of read_packet's result.
Truthy(r) == r.kind = "list" /\ Len(r.pts) > 0

\* ------------------------------------------------------- the byte source

\* serial.Serial.read(n) with a timeout, on the token sequence toks from
\* position pos: up to n bytes, fewer when the source pauses (the pause is
\* used up by this read) or has nothing more to send.
Min(S) == CHOOSE m \in S : \A k \in S : m <= k

\* The pauses among the next n tokens after position pos.
Pauses(toks, pos, n) ==
    {k \in pos + 1 .. Min({pos + n, Len(toks)}) : IsGap(toks[k])}

\* The position after the read: after the first pause, else after n bytes
\* or at the end of the stream.
ReadEnd(toks, pos, n) ==
    IF Pauses(toks, pos, n) = {} THEN Min({pos + n, Len(toks)})
    ELSE Min(Pauses(toks, pos, n))

\* A faulty SerRead: a block read leaves its last byte in the port.
SerRead_Overlap(toks, pos, n) ==
    [data |-> SelectSeq(SubSeq(toks, pos + 1, ReadEnd(toks, pos, n)),
                        LAMBDA t : ~IsGap(t)),
     pos  |-> IF n > 1 /\ ReadEnd(toks, pos, n) > pos
              THEN ReadEnd(toks, pos, n) - 1 ELSE ReadEnd(toks, pos, n)]

\* self.ser.read(n): the bytes read and the position after them.
SerRead(toks, pos, n) ==
    [data |-> SelectSeq(SubSeq(toks, pos + 1, ReadEnd(toks, pos, n)),
                        LAMBDA t : ~IsGap(t)),
     pos  |-> ReadEnd(toks, pos, n)]

\* Where the reader stands after a short block read r begun at position pos:
\* the bytes read are used up (line 59; the loop of line 53 goes on with
\* the next read).
AfterShort_Rescan(r, pos) == pos

AfterShort(r, pos) == r.pos

\* A faulty IsTimeout: the test of line 55 left out.
IsTimeout_Never(b) == FALSE

\* line 55
IsTimeout(b) == Len(b) = 0

\* line 57
IsHeader(b) == b[1] = HEADER

\* A faulty RestComplete: "<=" written for "==".
RestComplete_Le(rest) == Len(rest) <= PACKET_SIZE - 1

\* line 60
RestComplete(rest) == Len(rest) = PACKET_SIZE - 1

\* ------------------------------------------------------- the input streams

Const12(v) == [i \in 1..12 |-> v]

\* The frame of the wire-format example: 12 x (1000 mm, intensity 100).
FrameA == MakeFrame(1000, 0, Const12(1000), Const12(100), 996, 0)

\* Wraps at 360 degrees; some slots empty; payload bytes equal to 0x54.
FrameB ==
    MakeFrame(1000, 35500,
              <<84, 0, 300, 0, 21588, 500, 0, 700, 800, 900, 1000, 1100>>,
              <<84, 1, 2, 3, 4, 84, 6, 7, 8, 9, 10, 255>>, 496, 30)

\* No return in any slot.
FrameC == MakeFrame(1000, 1200, Const12(0), Const12(0), 2113, 60)

FrameD ==
    MakeFrame(1000, 2400, [i \in 1..12 |-> 2000 + i], [i \in 1..12 |-> i],
              3313, 90)

\* Frame k of the long stream: every point of the stream is different, and
\* the frames carry 0, 6 or 12 points.
LongFrame(k) ==
    MakeFrame(1000, (k * 996) % 36000,
              [i \in 1..12 |->
                  IF k % 6 = 0 \/ (k % 6 = 3 /\ i % 2 = 1) THEN 0 ELSE 1000 + k],
              [i \in 1..12 |-> (k + i) % 256],
              (k * 996 + 913) % 36000, k % 65536)

\* The frames a..b of the long stream, back to back.
RECURSIVE LongToks(_, _)
LongToks(a, b) ==
    IF a > b THEN <<>>
    ELSE IF a = b THEN LongFrame(a)
    ELSE LongToks(a, (a + b) \div 2) \o LongToks((a + b) \div 2 + 1, b)

\* toks with the byte at position p (1-based) replaced by v.
Corrupt(toks, p, v) == [toks EXCEPT ![p] = v]

\* Whether toks is a run of back-to-back well-formed frames.
\* Whether the PACKET_SIZE tokens from position from (1-based) on are a
\* frame: the header first, the checksum of the rest last.
FrameAt(toks, from) ==
    /\ toks[from] = HEADER
    /\ CalCRC8(SubSeq(toks, from, from + PACKET_SIZE - 2))
          = toks[from + PACKET_SIZE - 1]

WellFormed(toks) ==
    /\ Len(toks) % PACKET_SIZE = 0
    /\ \A k \in 1..Len(toks) : toks[k] \in 0..255
    /\ \A f \in 0 .. (Len(toks) \div PACKET_SIZE) - 1 :
          FrameAt(toks, f * PACKET_SIZE + 1)

\* A stream: its tokens, the stream it was made from by corrupting one byte
\* (itself when none was), the corrupted frame (0 when none), and whether
\* it is a run of back-to-back well-formed frames.
Stream(toks) ==
    [toks |-> toks, base |-> toks, bad |-> 0, wf |-> WellFormed(toks)]

\* base with byte q (0-based) of its frame k (1-based) replaced by v.
Corrupted(base, k, q, v) ==
    [toks |-> Corrupt(base, (k - 1) * PACKET_SIZE + q + 1, v),
     base |-> base, bad |-> k, wf |-> FALSE]

ABD == FrameA \o FrameB \o FrameD

DAD == FrameD \o FrameA \o FrameD

Streams ==
    << Stream(LongToks(1, NLong)),
       Stream(FrameA \o FrameB \o FrameC \o FrameD),
       Stream(FrameB \o FrameB),
       Stream(<<1, 2, 84>> \o FrameA \o FrameB),
       Stream(Gap \o FrameA \o Gap \o Gap \o FrameB),
       Stream(SubSeq(FrameA, 1, 20) \o Gap \o SubSeq(FrameA, 21, 47)
              \o FrameB \o FrameC),
       Stream(FrameA \o SubSeq(FrameB, 1, 30)),
       Stream(FrameD \o <<84>> \o Gap \o <<7>> \o FrameA),
       Corrupted(ABD, 2, 0, 0),
       Corrupted(ABD, 2, 6, 85),
       Corrupted(ABD, 2, 7, 1),
       Corrupted(ABD, 2, 46, (FrameB[47] + 1) % 256),
       Corrupted(ABD, 1, 0, 85),
       Corrupted(DAD, 2, 10, 84),
       Corrupted(DAD, 2, 0, 83),
       Corrupted(DAD, 3, 43, 0),
       Stream(FrameC \o Gap \o FrameC),
       Stream(SubSeq(FrameB, 1, 30) \o Gap \o FrameD) >>

\* Frame j (1-based) of a run of back-to-back frames.
FrameOf(base, j) == SubSeq(base, (j - 1) * PACKET_SIZE + 1, j * PACKET_SIZE)

\* The points of the frames j..k of base, in order, without those of frame
\* skip (0: of all of them).
RECURSIVE DecodeRange(_, _, _, _)
DecodeRange(base, j, k, skip) ==
    IF j > k THEN <<>>
    ELSE IF j = k
         THEN (IF j = skip THEN <<>> ELSE parse_packet(FrameOf(base, j)).pts)
    ELSE DecodeRange(base, j, (j + k) \div 2, skip)
         \o DecodeRange(base, (j + k) \div 2 + 1, k, skip)

\* The byte sequences parse_packet is called on directly.
ParseInputs ==
    { <<>>, <<84>>, <<0>>,
      SubSeq(FrameB, 1, 46),
      Append(FrameB, 0),
      Corrupt(FrameB, 1, 0),
      FrameB,
      FrameC,
      Corrupt(FrameA, 47, (FrameA[47] + 1) % 256),
      MakeFrame(65535, 65535, Const12(65535), Const12(255), 65535, 65535) }

\* ------------------------------------------------------------- the state

VARIABLES
    src,            \* the stream the serial port delivers (index in Streams)
    rpos,           \* tokens of the stream consumed so far
    pc,             \* "idle", or inside update_points: "scan" (line 54), "rest" (line 59)
    byte,           \* read_packet's local byte
    points,         \* self.points
    points_maxlen,  \* self.points.maxlen
    packet,         \* the last sequence handed to parse_packet
    ret,            \* the last value returned by read_packet or parse_packet
    ev,             \* the last step taken
    pushed,         \* history: every point ever appended to self.points
    nframes,        \* history: candidates read_packet handed to parse_packet
    timedOut,       \* history: a read of one byte has timed out
    hdr,            \* history: position of the last header byte found
    frameEnd,       \* history: position of the last byte of the last candidate
    mpc,            \* position in main; "lib" when LD19Lidar is used on its own
    handle,         \* self.ser: "none", "open" or "closed"
    bound,          \* 'lidar' in locals() (line 141)
    reported,       \* what main has printed about the way it ends
    cause,          \* history: why visualizer.run or the constructor was left
    vpc,            \* position in LidarVisualizer.update: "loop", "x", "y", "intensity"
    calls,          \* update_points calls made by the current update
    snap            \* update's locals x, y, intensity

\* The reader and its history.
readerVars == <<src, rpos, pc, byte, points, points_maxlen, packet, ret, ev,
                pushed, nframes, timedOut, hdr, frameEnd>>

\* main's locals and the port's handle.
mainVars == <<mpc, handle, bound, reported, cause>>

\* LidarVisualizer.update's position and locals.
visVars == <<vpc, calls, snap>>

vars == <<src, rpos, pc, byte, points, points_maxlen, packet, ret, ev,
          pushed, nframes, timedOut, hdr, frameEnd, mpc, handle, bound,
          reported, cause, vpc, calls, snap>>

\* update's locals before the comprehensions of lines 108-110 have run.
NoSnapshot == [x |-> <<>>, y |-> <<>>, intensity |-> <<>>]

\* The reader of a newly constructed LD19Lidar on one of the streams.
NewReader ==
    /\ src \in DOMAIN Streams
    /\ rpos = 0
    /\ pc = "idle"
    /\ byte = <<>>
    /\ points = <<>>
    /\ points_maxlen = MAXLEN
    /\ packet = <<>>
    /\ ret = None
    /\ ev = "init"
    /\ pushed = <<>>
    /\ nframes = 0
    /\ timedOut = FALSE
    /\ hdr = 0
    /\ frameEnd = 0

\* No update of the visualizer has begun.
NoVisualizer == vpc = "loop" /\ calls = 0 /\ snap = NoSnapshot

\* LD19Lidar used on its own: constructed, the port open, no main.
Library ==
    /\ mpc = "lib"
    /\ handle = "open"
    /\ bound = TRUE
    /\ reported = "none"
    /\ cause = "none"

\* The tokens of the stream being delivered.
stream == Streams[src].toks

\* lines 14-16, for every stream the port may deliver.
Constructed == NewReader /\ Library /\ NoVisualizer

\* The state NResume calls of update_points lead to on the long stream
\* (stream 1), one frame each: the steps from Constructed reach it too, so
\* it adds no state; it is a second starting point that keeps the runs
\* into the full buffer short.
Checkpoint ==
    /\ src = 1
    /\ rpos = NResume * PACKET_SIZE
    /\ pc = "idle"
    /\ byte = <<HEADER>>
    /\ points = DecodeRange(Streams[1].toks, 1, NResume, 0)
    /\ points_maxlen = MAXLEN
    /\ packet = FrameOf(Streams[1].toks, NResume)
    /\ ret = parse_packet(FrameOf(Streams[1].toks, NResume))
    /\ ev = "frame"
    /\ pushed = DecodeRange(Streams[1].toks, 1, NResume, 0)
    /\ nframes = NResume
    /\ timedOut = FALSE
    /\ hdr = (NResume - 1) * PACKET_SIZE + 1
    /\ frameEnd = NResume * PACKET_SIZE
    /\ Library
    /\ NoVisualizer

Init == Constructed \/ Checkpoint

\* lines 102-103: update_points is called by the for loop of update only,
\* before the buffer is read; on its own, LD19Lidar is called at any time.
WriterMayRun_Threaded == mpc \in {"lib", "running"}

WriterMayRun ==
    \/ mpc = "lib"
    \/ mpc = "running" /\ vpc = "loop" /\ calls < UPDATES_PER_DRAW

\* A faulty Return: the return of line 62 (and of line 56) left out, so
\* that the loop of line 53 goes on.
Return_KeepsReading(result) ==
    /\ ret' = result
    /\ pc' = "scan"
    /\ IF Truthy(result)
       THEN /\ points' = DequeExtend(points, points_maxlen, result.pts, 1)
            /\ pushed' = pushed \o result.pts
       ELSE UNCHANGED <<points, pushed>>

\* lines 56, 62 and 66-68: read_packet returns result to update_points,
\* which extends the buffer and returns.
Return(result) ==
    /\ ret' = result
    /\ pc' = "idle"
    /\ IF Truthy(result)
       THEN /\ points' = DequeExtend(points, points_maxlen, result.pts, 1)
            /\ pushed' = pushed \o result.pts
       ELSE UNCHANGED <<points, pushed>>

\* line 66: update_points is called and enters read_packet.
UpdateCall ==
    /\ pc = "idle"
    /\ WriterMayRun
    /\ pc' = "scan"
    /\ ev' = "call"
    /\ packet' = <<>>
    /\ ret' = None
    /\ calls' = IF mpc = "lib" \/ calls = UPDATES_PER_DRAW THEN calls ELSE calls + 1
    /\ UNCHANGED <<src, rpos, byte, points, points_maxlen, pushed, nframes,
                   timedOut, hdr, frameEnd, mainVars, vpc, snap>>

\* lines 54-56: the read of one byte times out and read_packet returns
\* None (were the test of line 55 to let the empty result pass, byte[0] of
\* line 57 would raise IndexError).
ReadTimeout ==
    /\ pc = "scan"
    /\ LET r == SerRead(stream, rpos, 1)
       IN  /\ Len(r.data) = 0 \/ IsTimeout(r.data)
           /\ rpos' = r.pos
           /\ byte' = r.data
           /\ Return(IF IsTimeout(r.data) THEN None ELSE Raise)
    /\ ev' = "timeout"
    /\ timedOut' = TRUE
    /\ UNCHANGED <<src, points_maxlen, packet, nframes, hdr, frameEnd,
                   mainVars, visVars>>

\* lines 54-57: a byte that is not the header; the loop goes on.
ReadJunk ==
    /\ pc = "scan"
    /\ LET r == SerRead(stream, rpos, 1)
       IN  /\ Len(r.data) # 0
           /\ ~IsTimeout(r.data)
           /\ ~IsHeader(r.data)
           /\ rpos' = r.pos
           /\ byte' = r.data
    /\ ev' = "junk"
    /\ UNCHANGED <<src, pc, points, points_maxlen, packet, ret, pushed,
                   nframes, timedOut, hdr, frameEnd, mainVars, visVars>>

\* lines 54-57: the header byte.
ReadHeader ==
    /\ pc = "scan"
    /\ LET r == SerRead(stream, rpos, 1)
       IN  /\ Len(r.data) # 0
           /\ ~IsTimeout(r.data)
           /\ IsHeader(r.data)
           /\ rpos' = r.pos
           /\ byte' = r.data
           /\ hdr' = r.pos
    /\ pc' = "rest"
    /\ ev' = "header"
    /\ UNCHANGED <<src, points, points_maxlen, packet, ret, pushed, nframes,
                   timedOut, frameEnd, mainVars, visVars>>

\* lines 59-60: the block read comes back short; the loop goes on.
ReadRestShort ==
    /\ pc = "rest"
    /\ LET r == SerRead(stream, rpos, PACKET_SIZE - 1)
       IN  /\ ~RestComplete(r.data)
           /\ rpos' = AfterShort(r, rpos)
    /\ pc' = "scan"
    /\ ev' = "short"
    /\ UNCHANGED <<src, byte, points, points_maxlen, packet, ret, pushed,
                   nframes, timedOut, hdr, frameEnd, mainVars, visVars>>

\* lines 59-62 and 66-68: the block is complete, the packet is parsed and
\* update_points extends the buffer.
ReadRestFull ==
    /\ pc = "rest"
    /\ LET r == SerRead(stream, rpos, PACKET_SIZE - 1)
       IN  /\ RestComplete(r.data)
           /\ rpos' = r.pos
           /\ packet' = byte \o r.data
           /\ Return(parse_packet(byte \o r.data))
           /\ frameEnd' = r.pos
    /\ ev' = "frame"
    /\ nframes' = nframes + 1
    /\ UNCHANGED <<src, byte, points_maxlen, timedOut, hdr, mainVars, visVars>>

\* lines 18-48: parse_packet called on its own.
ParseCall ==
    /\ pc = "idle"
    /\ nframes < MaxDirect
    /\ \E data \in ParseInputs :
          /\ packet' = data
          /\ ret' = parse_packet(data)
    /\ ev' = "parse"
    /\ UNCHANGED <<src, rpos, pc, byte, points, points_maxlen, pushed,
                   nframes, timedOut, hdr, frameEnd, mainVars, visVars>>

Next ==
    \/ UpdateCall
    \/ ReadTimeout
    \/ ReadJunk
    \/ ReadHeader
    \/ ReadRestShort
    \/ ReadRestFull
    \/ ParseCall

Spec == Init /\ [][Next]_vars

\* Every blocking read of the port returns (with bytes, or empty after the
\* timeout of line 15), so a call of read_packet that has begun takes its
\* next step: weak fairness of the reader's steps.  For the step that
\* parses a full block the condition WF_vars(ReadRestFull) is written out,
\* with the step's guard in place of ENABLED.
ReaderStep == ReadTimeout \/ ReadJunk \/ ReadHeader \/ ReadRestShort

FullBlockReady ==
    pc = "rest" /\ RestComplete(SerRead(stream, rpos, PACKET_SIZE - 1).data)

FairSpec ==
    /\ Spec
    /\ WF_vars(ReaderStep)
    /\ ([]<>(~FullBlockReady) \/ []<><<ReadRestFull>>_vars)

\* ------------------------------------------------------ the program main

\* p[0], p[1] and p[2] of a point p = (x, y, intensity), lines 108-110.
PointX(p) == <<"cos", p.distance, p.angle>>

PointY(p) == <<"sin", p.distance, p.angle>>

PointIntensity(p) == p.intensity

\* main is entered (line 124); nothing is open.
Started ==
    /\ NewReader
    /\ NoVisualizer
    /\ mpc = "start"
    /\ handle = "none"
    /\ bound = FALSE
    /\ reported = "none"
    /\ cause = "none"

\* line 15: serial.Serial opens the port, inside LD19Lidar.__init__.
OpenOk ==
    /\ mpc = "start"
    /\ mpc' = "opened"
    /\ handle' = "open"
    /\ UNCHANGED <<readerVars, visVars, bound, reported, cause>>

\* line 15: serial.Serial raises SerialException; no port is open.
OpenFail ==
    /\ mpc = "start"
    /\ mpc' = "except_serial"
    /\ cause' = "open_failed"
    /\ UNCHANGED <<readerVars, visVars, handle, bound, reported>>

\* lines 16 and 129-133: the constructor returns, lidar is bound and the
\* visualizer runs.
Bind ==
    /\ mpc = "opened"
    /\ mpc' = "running"
    /\ bound' = TRUE
    /\ UNCHANGED <<readerVars, visVars, handle, reported, cause>>

\* line 107: after the calls of update_points the buffer is empty and
\* update returns without reading it.
NoSnap ==
    /\ mpc = "running" /\ pc = "idle"
    /\ vpc = "loop" /\ calls = UPDATES_PER_DRAW
    /\ Len(points) = 0
    /\ calls' = 0
    /\ snap' = NoSnapshot
    /\ ev' = "nosnap"
    /\ UNCHANGED <<src, rpos, pc, byte, points, points_maxlen, packet, ret,
                   pushed, nframes, timedOut, hdr, frameEnd, mainVars, vpc>>

\* lines 107-108: x = [p[0] for p in self.lidar.points].
SnapX ==
    /\ mpc = "running" /\ pc = "idle"
    /\ vpc = "loop" /\ calls = UPDATES_PER_DRAW
    /\ Len(points) > 0
    /\ snap' = [x |-> [k \in 1..Len(points) |-> PointX(points[k])],
                y |-> <<>>, intensity |-> <<>>]
    /\ vpc' = "y"
    /\ ev' = "x"
    /\ UNCHANGED <<src, rpos, pc, byte, points, points_maxlen, packet, ret,
                   pushed, nframes, timedOut, hdr, frameEnd, mainVars, calls>>

\* line 109: y = [p[1] for p in self.lidar.points].
SnapY ==
    /\ mpc = "running" /\ pc = "idle"
    /\ vpc = "y"
    /\ snap' = [snap EXCEPT !.y = [k \in 1..Len(points) |-> PointY(points[k])]]
    /\ vpc' = "intensity"
    /\ ev' = "y"
    /\ UNCHANGED <<src, rpos, pc, byte, points, points_maxlen, packet, ret,
                   pushed, nframes, timedOut, hdr, frameEnd, mainVars, calls>>

\* lines 110-115: intensity = [p[2] for p in self.lidar.points]; the three
\* lists are handed to the scatter plot and update returns.
SnapIntensity ==
    /\ mpc = "running" /\ pc = "idle"
    /\ vpc = "intensity"
    /\ snap' = [snap EXCEPT !.intensity =
                    [k \in 1..Len(points) |-> PointIntensity(points[k])]]
    /\ vpc' = "loop"
    /\ calls' = 0
    /\ ev' = "snapshot"
    /\ UNCHANGED <<src, rpos, pc, byte, points, points_maxlen, packet, ret,
                   pushed, nframes, timedOut, hdr, frameEnd, mainVars>>

\* Whether an exception may be raised now (a bound of the model).
FaultAllowed == nframes < MaxFault

\* Ctrl-C inside the try block of lines 128-133: KeyboardInterrupt is
\* raised between any two steps and unwinds to line 138.
KeyboardInterrupt ==
    /\ mpc \in {"start", "opened", "running"}
    /\ FaultAllowed
    /\ mpc' = "except_kbd"
    /\ cause' = "interrupt"
    /\ pc' = "idle"
    /\ ev' = "interrupt"
    /\ UNCHANGED <<src, rpos, byte, points, points_maxlen, packet, ret,
                   pushed, nframes, timedOut, hdr, frameEnd, handle, bound,
                   reported, visVars>>

\* lines 54 and 59: a read of the port raises SerialException (the device
\* was unplugged), which unwinds to line 135.
TransportError ==
    /\ mpc = "running"
    /\ pc \in {"scan", "rest"}
    /\ FaultAllowed
    /\ mpc' = "except_serial"
    /\ cause' = "transport"
    /\ pc' = "idle"
    /\ ev' = "error"
    /\ UNCHANGED <<src, rpos, byte, points, points_maxlen, packet, ret,
                   pushed, nframes, timedOut, hdr, frameEnd, handle, bound,
                   reported, visVars>>

\* line 133: the window is closed between two updates and visualizer.run
\* returns.
WindowClosed ==
    /\ mpc = "running" /\ pc = "idle"
    /\ vpc = "loop" /\ calls = 0
    /\ mpc' = "finally"
    /\ cause' = "returned"
    /\ UNCHANGED <<readerVars, visVars, handle, bound, reported>>

\* lines 135-137.
HandleSerial ==
    /\ mpc = "except_serial"
    /\ reported' = "open_error"
    /\ mpc' = "finally"
    /\ UNCHANGED <<readerVars, visVars, handle, bound, cause>>

\* lines 138-139.
HandleKeyboard ==
    /\ mpc = "except_kbd"
    /\ reported' = "stopping"
    /\ mpc' = "finally"
    /\ UNCHANGED <<readerVars, visVars, handle, bound, cause>>

\* lines 140-143: lidar.close() when lidar is bound.
Finally ==
    /\ mpc = "finally"
    /\ handle' = IF bound THEN "closed" ELSE handle
    /\ mpc' = "done"
    /\ UNCHANGED <<readerVars, visVars, bound, reported, cause>>

NextMain ==
    \/ OpenOk
    \/ OpenFail
    \/ Bind
    \/ UpdateCall
    \/ ReadTimeout
    \/ ReadJunk
    \/ ReadHeader
    \/ ReadRestShort
    \/ ReadRestFull
    \/ NoSnap
    \/ SnapX
    \/ SnapY
    \/ SnapIntensity
    \/ KeyboardInterrupt
    \/ TransportError
    \/ WindowClosed
    \/ HandleSerial
    \/ HandleKeyboard
    \/ Finally

SpecMain == Started /\ [][NextMain]_vars

\* ----------------------------------------------------------- the claims

\* The slots of a packet that hold a measurement.
ValidSlots(data) == {i \in 0..11 : distance(data, i) # 0}

\* A step has just handed packet to parse_packet and ret is what it returned.
Parsed == ev \in {"frame", "parse"}

\* The stream is used up and update_points has returned on a timeout.
Quiescent == pc = "idle" /\ ev = "timeout" /\ rpos = Len(stream)

\* C1: the point buffer never holds more than 5000 points, and its
\* capacity is the one set in the constructor.
C1_Bounded == Len(points) <= points_maxlen /\ points_maxlen = MAXLEN

\* C1 witness: the buffer is full and points have been evicted.
C1_Witness == Len(points) = MAXLEN /\ Len(pushed) > MAXLEN

\* C2: the buffer holds all N points pushed, in push order, while
\* N <= 5000, and the 5000 most recently pushed ones, in push order, after.
C2_MostRecent ==
    points = SubSeq(pushed,
                    IF Len(pushed) > MAXLEN THEN Len(pushed) - MAXLEN + 1 ELSE 1,
                    Len(pushed))

\* C2 witness: a frame's points were pushed into a full buffer.
C2_Witness ==
    ev = "frame" /\ Len(ret.pts) > 0 /\ Len(pushed) - Len(ret.pts) >= MAXLEN

\* C3: parse_packet returns one point per slot with a distance other than
\* 0 and no point of distance 0, and no point of distance 0 is in the buffer.
C3_NoZeroDistance ==
    /\ Parsed /\ ret.kind = "list" =>
          /\ \A k \in 1..Len(ret.pts) : ret.pts[k].distance # 0
          /\ Len(ret.pts) = Cardinality(ValidSlots(packet))
    /\ \A k \in 1..Len(points) : points[k].distance # 0

\* C3 witness: a frame with empty and non-empty slots was read and pushed.
C3_Witness ==
    /\ ev = "frame" /\ ret.kind = "list"
    /\ ValidSlots(packet) # {} /\ ValidSlots(packet) # 0..11
    /\ Len(points) > 0

\* C4 (as claimed): a frame read from the port whose last byte is not the
\* checksum of its first 46 bytes is rejected, and none of its measurements
\* is returned.
C4_ChecksumEnforced ==
    /\ ev = "frame"
    /\ Len(packet) = PACKET_SIZE
    /\ packet[PACKET_SIZE] # CalCRC8(SubSeq(packet, 1, PACKET_SIZE - 1))
    => ret = None

\* The points of all frames of base, in order, without those of frame skip.
DecodeAll(base, skip) == DecodeRange(base, 1, Len(base) \div PACKET_SIZE, skip)

\* C5 (as claimed): when one byte of one frame of a run of well-formed
\* frames is corrupted, the points pushed once the stream is used up are
\* those of all the other frames, in order.
C5_OnlyCorruptedDropped ==
    Streams[src].bad # 0 /\ Quiescent
    => pushed = DecodeAll(Streams[src].base, Streams[src].bad)

\* C6: every candidate read_packet hands to parse_packet has 47 bytes and
\* starts with 0x54, and on a run of back-to-back well-formed frames the
\* k-th candidate is the k-th frame of the stream.
C6_Aligned ==
    ev = "frame" =>
        /\ Len(packet) = PACKET_SIZE
        /\ packet[1] = HEADER
        /\ Streams[src].wf => packet = FrameOf(stream, nframes)

\* C6 witness: the second or a later frame of a run of well-formed frames
\* was read, and its payload holds a byte 0x54.
C6_Witness ==
    /\ ev = "frame" /\ Streams[src].wf /\ nframes >= 2
    /\ \E k \in 2..PACKET_SIZE : packet[k] = HEADER

\* C7: on a run of well-formed frames every decoded point has an angle in
\* [0, 360) degrees and a distance above 0.
C7_AngleRange ==
    Streams[src].wf /\ ev = "frame" =>
        \A k \in 1..Len(ret.pts) :
            /\ ret.pts[k].angle >= 0
            /\ ret.pts[k].angle < 36000
            /\ ret.pts[k].distance > 0

\* C7 witness: a well-formed frame whose slots pass 360 degrees was decoded.
C7_Witness ==
    /\ Streams[src].wf /\ ev = "frame" /\ Len(ret.pts) > 0
    /\ start_angle(packet) < 36000
    /\ start_angle(packet) + 11 * 83 >= 36000

\* The angle from start_angle to end_angle, going up, in hundredths.
Span(data) == (end_angle(data) - start_angle(data)) % 36000

\* 11 times the angle of slot i interpolated between start_angle (slot 0)
\* and end_angle (slot 11).
Interpolated11(data, i) == (11 * start_angle(data) + i * Span(data)) % (11 * 36000)

\* The distance between two angles (here 11-fold) on the circle.
CircleDiff(x, y) ==
    IF (x - y) % (11 * 36000) <= (y - x) % (11 * 36000)
    THEN (x - y) % (11 * 36000) ELSE (y - x) % (11 * 36000)

\* The place in parse_packet's result of the point of the valid slot i.
Rank(data, i) == Cardinality({j \in ValidSlots(data) : j <= i})

\* C8 (as claimed): the angle of the point of slot i is the one
\* interpolated between start_angle and end_angle (to 0.001 degree).
C8_Interpolated ==
    ev = "frame" /\ ret.kind = "list" =>
        \A i \in ValidSlots(packet) :
            CircleDiff(11 * ret.pts[Rank(packet, i)].angle,
                       Interpolated11(packet, i)) <= 1

\* C9: a read of one byte that times out makes update_points return with
\* nothing raised and the buffer as it was, and a frame read by a later
\* call is the 47 bytes that arrived, decoded and pushed as any other.
C9_TimeoutHarmless ==
    /\ [][ev' = "timeout" =>
            /\ ret' = None
            /\ pc' = "idle"
            /\ points' = points
            /\ pushed' = pushed]_vars
    /\ [](timedOut /\ ev = "frame" =>
            /\ rpos >= PACKET_SIZE
            /\ packet = SubSeq(stream, rpos - PACKET_SIZE + 1, rpos)
            /\ ret = parse_packet(packet)
            /\ Len(pushed) >= Len(ret.pts)
            /\ ret.pts = SubSeq(pushed, Len(pushed) - Len(ret.pts) + 1,
                                Len(pushed)))

\* C9 witness: after a timeout, a later call has read and pushed a frame.
C9_Witness == timedOut /\ ev = "frame" /\ Len(ret.pts) > 0

\* C10: parse_packet returns None or a list and raises nothing, returns
\* None for every sequence that has not 47 bytes or does not start with
\* 0x54, and a call of it changes neither the buffer nor the reader.
C10_RejectsMalformed ==
    /\ [](Parsed =>
            /\ ret.kind \in {"None", "list"}
            /\ ~(Len(packet) = PACKET_SIZE /\ packet[1] = HEADER) => ret = None)
    /\ [][ev' = "parse" => UNCHANGED <<points, pushed, pc, rpos, byte, src>>]_vars

\* C10 witness: parse_packet has rejected a sequence while points were in
\* the buffer and frames were still to come.
C10_Witness ==
    /\ ev = "parse" /\ ret = None /\ Len(packet) # PACKET_SIZE
    /\ Len(points) > 0 /\ rpos < Len(stream)

\* The buffer after the first n pushes.
BufferAfter(n) == SubSeq(pushed, IF n > MAXLEN THEN n - MAXLEN + 1 ELSE 1, n)

\* C11: the x, y and intensity lists update hands to the plot have the
\* same length and are, index by index, the parts of the points of the
\* buffer as it is after the pushes made so far.
C11_SnapshotConsistent ==
    ev = "snapshot" =>
        /\ Len(snap.x) = Len(snap.y)
        /\ Len(snap.y) = Len(snap.intensity)
        /\ Len(snap.x) = Len(BufferAfter(Len(pushed)))
        /\ \A k \in 1..Len(snap.x) :
              /\ snap.x[k] = <<"cos", BufferAfter(Len(pushed))[k].distance,
                               BufferAfter(Len(pushed))[k].angle>>
              /\ snap.y[k] = <<"sin", BufferAfter(Len(pushed))[k].distance,
                               BufferAfter(Len(pushed))[k].angle>>
              /\ snap.intensity[k] = BufferAfter(Len(pushed))[k].intensity

\* C11 witness: a snapshot was taken of a buffer holding the points of
\* several frames.
C11_Witness == ev = "snapshot" /\ Len(snap.x) > 12 /\ nframes >= 2

\* C12 (as claimed): when main has ended, a port that was opened has been
\* closed by lidar.close(), nothing is read once it is closed, and when
\* opening failed nothing was closed and the failure was reported.
C12_ReleasesTransport ==
    /\ mpc = "done" => handle # "open"
    /\ handle = "closed" => pc = "idle" /\ mpc = "done"
    /\ mpc = "done" /\ cause = "open_failed" =>
          handle = "none" /\ reported = "open_error"

\* C13: when the block read after a header comes back short, nothing is
\* handed to the decoder and nothing is pushed, the bytes of the block are
\* used up, and the search goes on with the byte after them: the reader
\* never goes back in the stream and each search step takes the next byte.
C13_ShortBlockDiscarded ==
    /\ [][pc = "rest" /\ pc' = "scan" =>
            /\ Len(SerRead(stream, rpos, PACKET_SIZE - 1).data) < PACKET_SIZE - 1
            /\ rpos' = SerRead(stream, rpos, PACKET_SIZE - 1).pos
            /\ rpos' >= rpos + Len(SerRead(stream, rpos, PACKET_SIZE - 1).data)
            /\ UNCHANGED <<nframes, packet, ret, points, pushed>>]_vars
    /\ [][rpos' >= rpos]_vars
    /\ [][pc = "scan" /\ rpos' # rpos /\ ~IsGap(stream[rpos + 1]) =>
            rpos' = rpos + 1 /\ byte' = <<stream[rpos + 1]>>]_vars

\* C13 witness: a short block holding a byte 0x54 was discarded, and more
\* bytes are to come.
C13_Witness ==
    /\ ev = "short" /\ rpos < Len(stream)
    /\ \E k \in hdr + 1 .. rpos : stream[k] = HEADER

\* Slot i of a frame as the wire format lays it out: bytes 6+3i and 7+3i
\* hold the distance, low byte first, byte 8+3i the intensity (bytes are
\* counted from 0, sequences from 1).
WireDistance(data, i) == data[6 + 3 * i + 1] + 256 * data[7 + 3 * i + 1]

WireIntensity(data, i) == data[8 + 3 * i + 1]

WireStartAngle(data) == data[4 + 1] + 256 * data[5 + 1]

\* The place in the result of the point of slot i.
WireRank(data, i) == Cardinality({j \in 0..i : WireDistance(data, j) # 0})

\* The frame with its trailer (bytes 42 to 46) set to v.
WithTrailer(data, v) == [k \in 1..Len(data) |-> IF k > 42 THEN v ELSE data[k]]

\* C14: for a 47-byte frame starting with 0x54 the decoder takes the
\* distance of slot i from bytes 6+3i and 7+3i (little-endian), its
\* intensity from byte 8+3i and the start angle from bytes 4 and 5, and
\* the result does not depend on the trailer bytes 42 to 46.
C14_SlotLayout ==
    Parsed /\ Len(packet) = PACKET_SIZE /\ packet[1] = HEADER =>
        /\ ret.kind = "list"
        /\ \A i \in 0..11 :
              WireDistance(packet, i) # 0 =>
                /\ WireRank(packet, i) <= Len(ret.pts)
                /\ ret.pts[WireRank(packet, i)].distance = WireDistance(packet, i)
                /\ ret.pts[WireRank(packet, i)].intensity = WireIntensity(packet, i)
                /\ ret.pts[WireRank(packet, i)].angle
                       = (WireStartAngle(packet) + 83 * i) % 36000
        /\ parse_packet(WithTrailer(packet, 0)) = ret
        /\ parse_packet(WithTrailer(packet, 255)) = ret

\* C14 witness: a frame was decoded that has a distance of two non-zero
\* bytes, a start angle of two non-zero bytes and a non-zero trailer.
C14_Witness ==
    /\ ev = "frame" /\ ret.kind = "list"
    /\ \E i \in 0..11 : packet[6 + 3 * i + 1] # 0 /\ packet[7 + 3 * i + 1] > 1
    /\ packet[5] # 0 /\ packet[6] # 0
    /\ packet[43] # 0 /\ packet[47] # 0

\* The slots of a frame whose distance bytes are not both 0.
WireSlots(data) == {i \in 0..11 : WireDistance(data, i) # 0}

\* The k-th of them, in increasing order.
KthSlot(data, k) == CHOOSE i \in WireSlots(data) : WireRank(data, i) = k

\* C15: for an accepted frame parse_packet returns a list of at most 12
\* points, one for each slot with a non-zero distance and no other, in
\* increasing slot order, each with the intensity byte of its slot; a
\* frame whose distances are all 0 gives the empty list, not None.
C15_OnePointPerValidSlot ==
    Parsed /\ Len(packet) = PACKET_SIZE /\ packet[1] = HEADER =>
        /\ ret.kind = "list"
        /\ Len(ret.pts) <= 12
        /\ Len(ret.pts) = Cardinality(WireSlots(packet))
        /\ \A k \in 1..Len(ret.pts) :
              /\ ret.pts[k].angle
                     = (WireStartAngle(packet) + 83 * KthSlot(packet, k)) % 36000
              /\ ret.pts[k].intensity = WireIntensity(packet, KthSlot(packet, k))
        /\ \A k \in 1..Len(ret.pts) : \A l \in 1..Len(ret.pts) :
              k < l => KthSlot(packet, k) < KthSlot(packet, l)
        /\ WireSlots(packet) = {} => ret = List(<<>>) /\ ret # None

\* C15 witness: a frame whose twelve distances are 0 was read after a
\* frame that gave points, and the empty list was returned.
C15_Witness ==
    /\ ev = "frame" /\ WireSlots(packet) = {} /\ ret = List(<<>>)
    /\ Len(points) > 0 /\ nframes < NResume

\* C16: a call of read_packet that has begun returns; it returns at the
\* step where a read of one byte yields nothing or where the block read
\* after a header yields 46 bytes, at no other step, and it hands at most
\* one frame to the decoder.
C16_ReadPacketReturns ==
    /\ (pc # "idle") ~> (pc = "idle")
    /\ [][pc = "scan" /\ Len(SerRead(stream, rpos, 1).data) = 0 =>
            pc' = "idle" /\ ret' = None]_vars
    /\ [][pc = "rest" /\ Len(SerRead(stream, rpos, PACKET_SIZE - 1).data)
                             = PACKET_SIZE - 1 =>
            pc' = "idle" /\ nframes' = nframes + 1]_vars
    /\ [][pc # "idle" /\ pc' = "idle" =>
            \/ pc = "scan" /\ Len(SerRead(stream, rpos, 1).data) = 0
            \/ pc = "rest" /\ Len(SerRead(stream, rpos, PACKET_SIZE - 1).data)
                                  = PACKET_SIZE - 1]_vars
    /\ [][nframes' # nframes => nframes' = nframes + 1 /\ pc' = "idle"]_vars

\* C16 witness: a call has returned the first frame after bytes of the
\* stream were skipped, with no timeout before it.
C16_Witness ==
    /\ ev = "frame" /\ pc = "idle" /\ nframes = 1
    /\ hdr > 1 /\ ~timedOut

\* The last n elements of a sequence (all of it when it has fewer).
LastN(seq, n) == SubSeq(seq, IF Len(seq) > n THEN Len(seq) - n + 1 ELSE 1, Len(seq))

\* C17: a step changes the buffer only when update_points returns with a
\* non-empty list from read_packet, and then the new buffer is the old one
\* followed by that list, cut from the front to the capacity.
C17_AppendOnly ==
    [][IF pc # "idle" /\ pc' = "idle" /\ ret'.kind = "list" /\ Len(ret'.pts) > 0
       THEN points' = LastN(points \o ret'.pts, MAXLEN)
       ELSE points' = points]_vars

\* C17 witness: the points of a frame were pushed of which some fitted and
\* the others evicted the oldest points.
C17_Witness ==
    /\ ev = "frame" /\ Len(ret.pts) > 0
    /\ Len(pushed) > MAXLEN
    /\ Len(pushed) - Len(ret.pts) < MAXLEN

\* C18: the reader takes the bytes of the stream in order, each once: it
\* never goes back, a search step takes the one next token, a block read
\* takes the tokens that follow, and a candidate handed to the decoder is
\* the header byte and the 46 bytes after it, lying wholly after the
\* candidate before it.
C18_ConsumedOnce ==
    /\ [][rpos' >= rpos /\ rpos' <= Len(stream)]_vars
    /\ [][pc = "scan" => rpos' <= rpos + 1]_vars
    /\ [][pc = "scan" /\ pc' = "rest" =>
            rpos' = rpos + 1 /\ stream[rpos'] = HEADER /\ hdr' = rpos']_vars
    /\ [][pc = "rest" =>
            /\ rpos >= 1
            /\ hdr = rpos
            /\ rpos' <= rpos + PACKET_SIZE - 1
            /\ nframes' = nframes + 1 =>
                  /\ rpos' = rpos + PACKET_SIZE - 1
                  /\ packet' = SubSeq(stream, rpos, rpos')
                  /\ rpos > frameEnd
                  /\ frameEnd' = rpos']_vars
    /\ [](frameEnd <= rpos /\ hdr <= rpos)

\* C18 witness: a second candidate was handed to the decoder, with bytes
\* skipped before it.
C18_Witness ==
    /\ ev = "frame" /\ nframes = 2
    /\ hdr > PACKET_SIZE + 1
    /\ packet = SubSeq(stream, hdr, rpos)

====
